---- MODULE Spec2Model ----
(***************************************************************************)
(* Model of github.com/tdewolff/buffer: the pooled Lexer (lexer.go), the   *)
(* Shifter (shifter.go) and the byte-slice Reader they pull from.          *)
(*                                                                         *)
(* Memory is modelled explicitly.  heap is the sequence of backing arrays  *)
(* ever allocated; a Go slice that starts at offset 0 of its array is a    *)
(* record [arr |-> index into heap, len |-> length], and its capacity is   *)
(* the length of the array.  Indices into a slice are 0-based as in Go,    *)
(* heap cells are 1-based as in TLA+.  A run-time panic (index or slice    *)
(* bounds out of range) stops the instance: panicked becomes TRUE and no   *)
(* operation is enabled afterwards.                                        *)
(***************************************************************************)
EXTENDS Integers, Sequences, FiniteSets, TLC

\* ---------------------------------------------------------------- bounds
MaxInput == 3      \* longest input stream
MaxRunes == 4      \* longest input stream of the caller that peeks runes
MaxRuneAt == 1     \* largest offset passed to PeekRune
MaxSize == 2       \* largest initial buffer size handed to the constructor
MaxPeek == 2       \* largest offset passed to Peek
MaxMove == 2       \* largest distance passed to Move / mark passed to MoveTo
MaxFree == 2       \* largest count passed to one Free call
MaxOver == 1       \* how far past len(buf) the caller may move the frontier
MaxOverFree == 1   \* how far the freed total may exceed the shifted total

VARIABLES
    kind,       \* "Lexer" or "Shifter": which type was constructed
    hasBytes,   \* the io.Reader given to the constructor implements Bytes()
    input,      \* the bytes of the underlying stream
    rpos,       \* Reader.pos: bytes the source has delivered so far
    err,        \* z.err: "nil", "EOF" or "ErrSrc"
    eof,        \* Shifter.eof
    heap,       \* backing arrays, by allocation order
    buf,        \* z.buf
    pos,        \* z.pos
    end,        \* z.end
    pool,       \* BufferPool.pool: blocks [arr, len, next, active]
    head,       \* BufferPool.head (index plus one, 0 = none)
    tail,       \* BufferPool.tail (index plus one, 0 = none)
    poolPos,    \* BufferPool.pos
    panicked,   \* a run-time panic was raised
    ret,        \* the last operation, its argument, its result and its pull
    reads,      \* number of calls made to the source's Read
    base,       \* stream offset of buf[0]
    shifted,    \* cells passed over by Shift and Skip, in stream order
    freed,      \* cumulative total passed to Free
    mark,       \* the mark a caller took with Pos, and the byte Peek(0) gave there
    alt         \* a second instance whose swap never reuses the current buffer

vars == <<kind, hasBytes, input, rpos, err, eof, heap, buf, pos, end,
          pool, head, tail, poolPos, panicked, reads, base, shifted,
          freed, mark, alt, ret>>

\* ---------------------------------------------------------------- helpers
\* Lexer.read compares 2*d with c.  Lexer.read declares no c (its capacity is
\* held in size): the name resolves to the package-level "var c = 0" of
\* shifter_test.go, the only declaration of c in the package.
c == 0

PANIC == -1
NoPull == [n |-> -1, e |-> "nil"]

Min(S) == CHOOSE x \in S : \A y \in S : x <= y

Zeros(n) == [i \in 1..n |-> 0]

Cap(hp, b) == Len(hp[b.arr])

\* mutant of CopyInto: the left-overs are taken from the start of the old buffer
CopyFromStart(hp, dst, src, from, d) ==
    [hp EXCEPT ![dst] = [i \in 1..Len(hp[dst]) |->
                            IF i <= d THEN hp[src][i] ELSE hp[dst][i]]]

\* copy(dst[:d], src[from:]) between two arrays of hp (memmove semantics)
CopyInto(hp, dst, src, from, d) ==
    [hp EXCEPT ![dst] = [i \in 1..Len(hp[dst]) |->
                            IF i <= d THEN hp[src][from + i] ELSE hp[dst][i]]]

\* mutant of Fill: the source writes at the front, over the left-overs
FillAtFront(hp, dst, d, data) ==
    [hp EXCEPT ![dst] = [i \in 1..Len(hp[dst]) |->
                            IF i <= Len(data) THEN data[i] ELSE hp[dst][i]]]

\* the source writes data into cells [d, d+Len(data)) of array dst
Fill(hp, dst, d, data) ==
    [hp EXCEPT ![dst] = [i \in 1..Len(hp[dst]) |->
                            IF i > d /\ i <= d + Len(data)
                            THEN data[i - d] ELSE hp[dst][i]]]

\* ---------------------------------------------------------------- source
\* Outcomes (n, err) of one Read over a region of length L when rem bytes
\* of the stream are left.  A reader may deliver fewer bytes than offered,
\* may report EOF together with the last bytes, and may fail at any time.
ReadOutcomes(L, rem) ==
    { o \in [n : 0..(IF L < rem THEN L ELSE rem), e : {"nil", "EOF", "ErrSrc"}] :
        /\ (o.e = "EOF" => o.n = rem)
        /\ (L = 0 /\ rem > 0 => o.e # "EOF") }

\* ---------------------------------------------------------------- pool
\* first inactive block whose capacity is at least size (0 = none)
FindFree(pl, hp, size) ==
    LET cand == { i \in 1..Len(pl) : ~pl[i].active /\ size <= Len(hp[pl[i].arr]) }
    IN IF cand = {} THEN 0 ELSE Min(cand)

\* mutant of ReuseCurrent: the consumed offset is not compared with len(oldBuf)
ReuseCurrentUnfreed(tl, pp, oldLen, oldCap, size) ==
    tl = 0 /\ size <= oldCap

\* mutant of ReuseCurrent: the chain is not looked at
ReuseCurrentAnyChain(tl, pp, oldLen, oldCap, size) ==
    pp >= oldLen /\ size <= oldCap

\* mutant of ReuseCurrent: the size asked for is not compared with the capacity
ReuseCurrentAnySize(tl, pp, oldLen, oldCap, size) ==
    tl = 0 /\ pp >= oldLen

\* "but we can reuse the current buffer!"
ReuseCurrent(tl, pp, oldLen, oldCap, size) ==
    tl = 0 /\ pp >= oldLen /\ size <= oldCap

\* mutant of Link: the old head is not linked to the block pushed
LinkNone(pl, hd, sw) == pl

\* "if z.head != 0 { z.pool[z.head-1].next = swap + 1 }"
Link(pl, hd, sw) == IF hd # 0 THEN [pl EXCEPT ![hd].next = sw] ELSE pl

\* mutant of Retire: the block keeps the storage that swap hands out
RetireNone(pl, sw, oldBuf) == pl

\* "z.pool[swap] = block{oldBuf, 0, true}"
Retire(pl, sw, oldBuf) ==
    [pl EXCEPT ![sw] = [arr |-> oldBuf.arr, len |-> oldBuf.len,
                        next |-> 0, active |-> TRUE]]

\* BufferPool.swap(oldBuf, size); with fast = FALSE it is the swap that never
\* reuses the current buffer
swap(pl, hd, tl, pp, hp, oldBuf, size, fast) ==
    LET found == FindFree(pl, hp, size)
    IN IF found = 0 /\ fast
          /\ ReuseCurrent(tl, pp, oldBuf.len, Cap(hp, oldBuf), size)
       THEN [pool |-> pl, head |-> hd, tail |-> tl, pos |-> pp - oldBuf.len,
             heap |-> hp, buf |-> [arr |-> oldBuf.arr, len |-> 0]]
       ELSE LET hp1 == IF found = 0 THEN Append(hp, Zeros(size)) ELSE hp
                pl1 == IF found = 0
                       THEN Append(pl, [arr |-> Len(hp1), len |-> 0,
                                        next |-> 0, active |-> TRUE])
                       ELSE pl
                sw  == IF found = 0 THEN Len(pl1) ELSE found
                newBuf == pl1[sw]
                pl2 == Retire(pl1, sw, oldBuf)
                pl3 == Link(pl2, hd, sw)
            IN [pool |-> pl3, head |-> sw, tail |-> IF tl = 0 THEN sw ELSE tl,
                pos |-> pp, heap |-> hp1, buf |-> [arr |-> newBuf.arr, len |-> 0]]

\* mutant of Release: the block released is also cut off and emptied
ReleaseCleared(pl, tl) ==
    [pl EXCEPT ![tl].active = FALSE, ![tl].next = 0, ![tl].len = 0]

\* "z.pool[z.tail-1].active = false"
Release(pl, tl) == [pl EXCEPT ![tl].active = FALSE]

\* the loop of BufferPool.free: move the tail over fully consumed blocks
RECURSIVE FreeWalk(_, _, _)
FreeWalk(pl, tl, pp) ==
    IF tl # 0 /\ pp >= pl[tl].len
    THEN FreeWalk(Release(pl, tl), pl[tl].next, pp - pl[tl].len)
    ELSE [pool |-> pl, tail |-> tl, pos |-> pp]

\* mutant of HeadAfter: the head is kept when the chain runs empty
HeadAfterKept(hd, tl) == hd

\* "if z.tail == 0 { z.head = 0 }"
HeadAfter(hd, tl) == IF tl = 0 THEN 0 ELSE hd

\* BufferPool.free(n)
free(pl, hd, tl, pp, n) ==
    LET w == FreeWalk(pl, tl, pp + n)
    IN [pool |-> w.pool, tail |-> w.tail, pos |-> w.pos,
        head |-> HeadAfter(hd, w.tail)]

\* ---------------------------------------------------------------- refill
\* The instance as a record, so that read can be written as a function.
Z == [heap |-> heap, buf |-> buf, pos |-> pos, end |-> end, err |-> err,
      eof |-> eof, pool |-> pool, head |-> head, tail |-> tail,
      poolPos |-> poolPos, rpos |-> rpos, reads |-> reads, base |-> base,
      panicked |-> panicked, val |-> 0, pull |-> NoPull, fast |-> TRUE]

Crash(s) == [s EXCEPT !.panicked = TRUE, !.val = PANIC]

\* mutant of ErrSet: read never looks at the error state
ErrSetNever(e) == FALSE

\* mutant of ErrSet: read gives up on exhaustion only, not on a source failure
ErrSetOnlyEOF(e) == e = "EOF"

\* "if z.err != nil { return 0 }"
ErrSet(e) == e # "nil"

\* size requested from the pool by Lexer.read
LexerSize(cp, d, cc) == IF 2 * d > cc THEN 2 * cp + d ELSE cp

\* capacity of the array Shifter.read allocates when it grows
ShifterCap(cp, target, p) == 2 * cp + target - p

\* mutant of ErrAfter: an empty pull without error is not taken as exhaustion
ErrAfterKeep(n, e) == e

\* error state after a pull that returned (n, e)
ErrAfter(n, e) == IF n = 0 /\ e = "nil" THEN "EOF" ELSE e

\* byte returned by read after a pull of n bytes into a buffer of length len
ReadVal(hp, arr, len, n, endl) ==
    IF n = 0 THEN 0
    ELSE IF endl < 0 \/ endl >= len THEN PANIC ELSE hp[arr][endl + 1]

\* mutant of Rebase: the position is left relative to the old backing
RebaseNone(e, p) == e

\* "end -= z.pos; z.end -= z.pos": a position relative to the new backing
Rebase(e, p) == e - p

\* second half of read: the pull, the re-basing of the positions, the result
Pull(s, k, inp, nb, d, target, o) ==
    LET data == SubSeq(inp, s.rpos + 1, s.rpos + o.n)
        hp   == Fill(s.heap, nb.arr, d, data)
        v    == ReadVal(hp, nb.arr, d + o.n, o.n, Rebase(target, s.pos))
    IN [s EXCEPT !.heap = hp,
                 !.buf = [arr |-> nb.arr, len |-> d + o.n],
                 !.end = Rebase(s.end, s.pos),
                 !.base = s.base + s.pos,
                 !.pos = 0,
                 !.rpos = s.rpos + o.n,
                 !.reads = s.reads + 1,
                 !.err = ErrAfter(o.n, o.e),
                 !.eof = (k = "Shifter") /\ ErrAfter(o.n, o.e) = "EOF",
                 !.val = v,
                 !.pull = o,
                 !.panicked = (v = PANIC)]

\* Lexer.read(end): the set of possible outcomes
LexerRead(s, cc, inp, target) ==
    IF ErrSet(s.err) THEN {[s EXCEPT !.val = 0]}
    ELSE LET cp   == Cap(s.heap, s.buf)
             d    == s.buf.len - s.pos
             size == LexerSize(cp, d, cc)
         IN IF s.pos > cp THEN {Crash(s)}                 \* z.buf[:z.pos]
            ELSE LET w  == swap(s.pool, s.head, s.tail, s.poolPos, s.heap,
                                [arr |-> s.buf.arr, len |-> s.pos], size, s.fast)
                     s1 == [s EXCEPT !.pool = w.pool, !.head = w.head,
                                     !.tail = w.tail, !.poolPos = w.pos,
                                     !.heap = w.heap]
                 IN IF d < 0 THEN {Crash(s1)}             \* buf[:d]
                    ELSE LET hp == CopyInto(w.heap, w.buf.arr, s.buf.arr, s.pos, d)
                             s2 == [s1 EXCEPT !.heap = hp]
                             L  == Len(hp[w.buf.arr]) - d
                         IN { Pull(s2, "Lexer", inp, w.buf, d, target, o) :
                                o \in ReadOutcomes(L, Len(inp) - s.rpos) }

\* Shifter.read(end): the set of possible outcomes
ShifterRead(s, inp, target) ==
    IF ErrSet(s.err) THEN {[s EXCEPT !.val = 0]}
    ELSE LET cp   == Cap(s.heap, s.buf)
             d    == s.buf.len - s.pos
             grow == 2 * d > cp
         IN IF ~grow /\ d < 0 THEN {Crash(s)}             \* z.buf[:d]
            ELSE LET hp0 == IF grow
                            THEN Append(s.heap, Zeros(ShifterCap(cp, target, s.pos)))
                            ELSE s.heap
                     nb  == IF grow THEN [arr |-> Len(hp0), len |-> d]
                                    ELSE [arr |-> s.buf.arr, len |-> d]
                     hp  == CopyInto(hp0, nb.arr, s.buf.arr, s.pos, d)
                     s2  == [s EXCEPT !.heap = hp]
                     L   == Len(hp[nb.arr]) - d
                 IN { Pull(s2, "Shifter", inp, nb, d, target, o) :
                        o \in ReadOutcomes(L, Len(inp) - s.rpos) }

\* Lexer.Peek / Shifter.Peek: the set of possible outcomes
PeekResults(s, k, cc, inp, off) ==
    LET target == s.end + off
    IN IF target >= s.buf.len
       THEN IF k = "Lexer" THEN LexerRead(s, cc, inp, target)
                           ELSE ShifterRead(s, inp, target)
       ELSE IF target < 0 THEN {Crash(s)}
       ELSE {[s EXCEPT !.val = s.heap[s.buf.arr][target + 1]]}

\* mutant of Err: exhaustion is reported wherever the frontier is
ErrUnmasked(e, en, len) == e

\* Lexer.Err / Shifter.Err
Err(e, en, len) == IF e = "EOF" /\ en < len THEN "nil" ELSE e

\* Lexer.Pos / Shifter.Pos
Pos == end - pos

\* z.buf[lo:hi] is legal when 0 <= lo <= hi <= cap(z.buf)
SliceOK(hp, b, lo, hi) == 0 <= lo /\ lo <= hi /\ hi <= Cap(hp, b)

\* Lexer.Bytes / Shifter.Bytes: the content of z.buf[z.pos:z.end]
Bytes(hp, b, lo, hi) == SubSeq(hp[b.arr], lo + 1, hi)

\* ---------------------------------------------------------------- construction
\* the instance before the priming Peek(0) of the constructor
Fresh(size) ==
    [heap |-> <<Zeros(size)>>, buf |-> [arr |-> 1, len |-> 0], pos |-> 0,
     end |-> 0, err |-> "nil", eof |-> FALSE, pool |-> <<>>, head |-> 0,
     tail |-> 0, poolPos |-> 0, rpos |-> 0, reads |-> 0, base |-> 0,
     panicked |-> FALSE, val |-> 0, pull |-> NoPull, fast |-> TRUE]

\* mutant of FromBytes: the error state is not preset to exhausted
FromBytesUnset(k, inp) ==
    [Fresh(0) EXCEPT !.heap = <<inp>>, !.buf = [arr |-> 1, len |-> Len(inp)]]

\* the instance built over the bytes the reader already holds in memory
FromBytes(k, inp) ==
    [Fresh(0) EXCEPT !.heap = <<inp>>, !.buf = [arr |-> 1, len |-> Len(inp)],
                     !.err = "EOF", !.eof = (k = "Shifter")]

\* NewLexerSize / NewShifter: the set of instances construction can yield
New(k, hb, cc, inp, size) ==
    IF hb THEN {FromBytes(k, inp)}
    ELSE PeekResults(Fresh(size), k, cc, inp, 0)

Input(n) == [i \in 1..n |-> i]

Load(s) ==
    /\ heap = s.heap /\ buf = s.buf /\ pos = s.pos /\ end = s.end
    /\ err = s.err /\ eof = s.eof /\ pool = s.pool /\ head = s.head
    /\ tail = s.tail /\ poolPos = s.poolPos /\ rpos = s.rpos
    /\ reads = s.reads /\ base = s.base /\ panicked = s.panicked

\* no mark taken / no second instance
NoMark == [m |-> -1, val |-> 0, refilled |-> FALSE, back |-> FALSE]
NoAlt == [on |-> FALSE]

\* construction over one of the inputs with one of the sizes (NewLexerSize's
\* argument, or the package variable MinBuf for NewShifter)
BuildSized(inputs, sizes) ==
    /\ kind \in {"Lexer", "Shifter"}
    /\ hasBytes \in BOOLEAN
    /\ input \in inputs
    /\ \E size \in sizes : \E s \in New(kind, hasBytes, c, input, size) :
          /\ Load(s)
          /\ ret = [op |-> "New", arg |-> 0, val |-> s.val, pull |-> s.pull]
    /\ shifted = <<>>
    /\ freed = 0

Build(inputs) == BuildSized(inputs, 1..MaxSize)

Init ==
    /\ Build({Input(n) : n \in 0..MaxInput})
    /\ mark = NoMark /\ alt = NoAlt

\* ---------------------------------------------------------------- operations
Store(s) ==
    /\ heap' = s.heap /\ buf' = s.buf /\ pos' = s.pos /\ end' = s.end
    /\ err' = s.err /\ eof' = s.eof /\ pool' = s.pool /\ head' = s.head
    /\ tail' = s.tail /\ poolPos' = s.poolPos /\ rpos' = s.rpos
    /\ reads' = s.reads /\ base' = s.base /\ panicked' = s.panicked

config == <<kind, hasBytes, input>>
lexer  == <<heap, buf, pos, end, err, eof, rpos, reads, base, panicked>>
pooled == <<pool, head, tail, poolPos>>
caller == <<shifted, freed>>

Peek ==
    /\ ~panicked
    /\ \E off \in 0..MaxPeek : \E s \in PeekResults(Z, kind, c, input, off) :
          /\ Store(s)
          /\ ret' = [op |-> "Peek", arg |-> off, val |-> s.val, pull |-> s.pull]
    /\ UNCHANGED <<config, caller>>

\* the caller keeps the frontier at or after the token start
MoveOK(e) == pos <= e /\ e <= buf.len + MaxOver

Move ==
    /\ ~panicked
    /\ \E n \in (-MaxMove)..MaxMove :
          /\ MoveOK(end + n)
          /\ end' = end + n
          /\ ret' = [op |-> "Move", arg |-> 0, val |-> 0, pull |-> NoPull]
    /\ UNCHANGED <<config, heap, buf, pos, err, eof, rpos, reads, base,
                   panicked, pooled, shifted, freed>>

\* mutant of MarkTarget: the mark is taken as an index into the buffer
MarkTargetAbsolute(p, n) == n

\* "z.end = z.pos + n"
MarkTarget(p, n) == p + n

MoveTo ==
    /\ ~panicked
    /\ \E n \in 0..MaxMove :
          /\ MoveOK(pos + n)
          /\ end' = MarkTarget(pos, n)
          /\ ret' = [op |-> "MoveTo", arg |-> n, val |-> 0, pull |-> NoPull]
    /\ UNCHANGED <<config, heap, buf, pos, err, eof, rpos, reads, base,
                   panicked, pooled, shifted, freed>>

ErrOp ==
    /\ ~panicked
    /\ ret' = [op |-> "Err", arg |-> 0, val |-> Err(err, end, buf.len),
               pull |-> NoPull]
    /\ UNCHANGED <<config, lexer, pooled, caller>>

\* the cells [lo, hi) of the current backing, as passed over by Shift or Skip
Cells(hp, b, lo, hi) ==
    [i \in 1..(hi - lo) |->
        [arr |-> b.arr, idx |-> lo + i - 1,
         val |-> IF lo + i <= Cap(hp, b) THEN hp[b.arr][lo + i] ELSE 0]]

\* mutant of TokenStart: the token start is left where it was
TokenStartKept(p, e) == p

\* mutant of TokenStart: the frontier is added to the token start
TokenStartAdded(p, e) == p + e

\* "z.pos = z.end"
TokenStart(p, e) == e

Shift ==
    /\ ~panicked
    /\ IF SliceOK(heap, buf, pos, end)
       THEN /\ ret' = [op |-> "Shift", arg |-> 0,
                       val |-> Bytes(heap, buf, pos, end), pull |-> NoPull]
            /\ pos' = TokenStart(pos, end)
            /\ shifted' = shifted \o Cells(heap, buf, pos, end)
            /\ UNCHANGED panicked
       ELSE /\ ret' = [op |-> "Shift", arg |-> 0, val |-> PANIC, pull |-> NoPull]
            /\ panicked' = TRUE
            /\ UNCHANGED <<pos, shifted>>
    /\ UNCHANGED <<config, heap, buf, end, err, eof, rpos, reads, base,
                   pooled, freed>>

Skip ==
    /\ ~panicked
    /\ pos' = TokenStart(pos, end)
    /\ shifted' = shifted \o Cells(heap, buf, pos, end)
    /\ ret' = [op |-> "Skip", arg |-> 0, val |-> 0, pull |-> NoPull]
    /\ UNCHANGED <<config, heap, buf, end, err, eof, rpos, reads, base,
                   panicked, pooled, freed>>

\* Lexer.Free(n); the Shifter has no Free
Free ==
    /\ ~panicked
    /\ kind = "Lexer"
    /\ \E n \in 0..MaxFree :
          /\ freed + n <= Len(shifted) + MaxOverFree
          /\ LET f == free(pool, head, tail, poolPos, n)
             IN /\ pool' = f.pool /\ head' = f.head /\ tail' = f.tail
                /\ poolPos' = f.pos
          /\ freed' = freed + n
          /\ ret' = [op |-> "Free", arg |-> 0, val |-> 0, pull |-> NoPull]
    /\ UNCHANGED <<config, lexer, shifted>>

\* the operations leave the mark and the second instance alone
Idle == UNCHANGED <<mark, alt>>

Next ==
    \/ Peek /\ Idle
    \/ Move /\ Idle
    \/ MoveTo /\ Idle
    \/ Shift /\ Idle
    \/ Skip /\ Idle
    \/ Free /\ Idle
    \/ ErrOp /\ Idle

Spec == Init /\ [][Next]_vars

\* the same operations on instances built with any size, 0 included
InitSized ==
    /\ BuildSized({Input(n) : n \in 0..MaxInput}, 0..MaxSize)
    /\ mark = NoMark /\ alt = NoAlt

SpecSized == InitSized /\ [][Next]_vars

\* ---------------------------------------------------------------- marks
\* A caller that takes a mark: m = Pos() right after a Peek(0), then any
\* operations but Shift and Skip, among them MoveTo(m).  mark.back tells
\* that the last move of the frontier was MoveTo(m), mark.refilled that a
\* Peek has pulled since the mark.  This caller frees no more than it shifted.
PosOp ==
    /\ ~panicked
    /\ mark = NoMark
    /\ ret.op = "Peek" /\ ret.arg = 0
    /\ mark' = [m |-> Pos, val |-> ret.val, refilled |-> FALSE, back |-> FALSE]
    /\ ret' = [op |-> "Pos", arg |-> 0, val |-> Pos, pull |-> NoPull]
    /\ UNCHANGED <<config, lexer, pooled, caller, alt>>

Marked == mark.m >= 0

NextMark ==
    \/ Peek /\ mark' = [mark EXCEPT !.refilled = @ \/ (Marked /\ reads' > reads)]
            /\ UNCHANGED alt
    \/ Move /\ mark' = [mark EXCEPT !.back = FALSE] /\ UNCHANGED alt
    \/ MoveTo /\ mark' = [mark EXCEPT !.back = Marked /\ ret'.arg = mark.m]
              /\ UNCHANGED alt
    \/ ~Marked /\ Shift /\ Idle
    \/ ~Marked /\ Skip /\ Idle
    \/ Free /\ freed' <= Len(shifted) /\ Idle
    \/ PosOp

SpecMark == Init /\ [][NextMark]_vars

\* ---------------------------------------------------------------- pairs
\* A Lexer and a second instance whose swap never reuses the current buffer,
\* given the same calls and the same answers (n, err) of the source.
Second(z) == [on |-> TRUE, differs |-> FALSE, st |-> [z EXCEPT !.fast = FALSE]]

\* the second instance before its next call
Ready == [alt.st EXCEPT !.val = 0, !.pull = NoPull]

\* Shift on the second instance
Shifted(z) ==
    IF SliceOK(z.heap, z.buf, z.pos, z.end)
    THEN [z EXCEPT !.val = Bytes(z.heap, z.buf, z.pos, z.end),
                   !.pos = TokenStart(z.pos, z.end)]
    ELSE Crash(z)

InitPair ==
    /\ Build({Input(n) : n \in 0..MaxInput})
    /\ kind = "Lexer" /\ ~hasBytes
    /\ mark = NoMark
    /\ alt \in {Second(a) :
                 a \in {z \in PeekResults([Fresh(Cap(heap, buf)) EXCEPT !.fast = FALSE],
                                         kind, c, input, 0) : z.pull = ret.pull}}

PairPeek ==
    /\ Peek
    /\ \E off \in {ret'.arg}, pulled \in {ret'.pull}, z \in {Ready} :
          LET same == {a \in PeekResults(z, kind, c, input, off) : a.pull = pulled}
          IN IF same = {} THEN alt' = [alt EXCEPT !.differs = TRUE]
             ELSE \E a \in same : alt' = [alt EXCEPT !.st = a]

PairMove ==
    Move /\ alt' = [alt EXCEPT !.st = [Ready EXCEPT !.end = @ + (end' - end)]]

PairMoveTo ==
    MoveTo /\ alt' = [alt EXCEPT !.st = [Ready EXCEPT !.end = MarkTarget(alt.st.pos, ret'.arg)]]

PairShift ==
    Shift /\ alt' = [alt EXCEPT !.st = Shifted(Ready)]

PairSkip ==
    Skip /\ alt' = [alt EXCEPT !.st = [Ready EXCEPT !.pos = TokenStart(alt.st.pos, alt.st.end)]]

PairFree ==
    /\ Free
    /\ LET f == free(alt.st.pool, alt.st.head, alt.st.tail, alt.st.poolPos,
                     freed' - freed)
       IN alt' = [alt EXCEPT !.st = [Ready EXCEPT !.pool = f.pool, !.head = f.head,
                                                  !.tail = f.tail, !.poolPos = f.pos]]

NextPair ==
    \/ PairPeek /\ UNCHANGED mark
    \/ PairMove /\ UNCHANGED mark
    \/ PairMoveTo /\ UNCHANGED mark
    \/ PairShift /\ UNCHANGED mark
    \/ PairSkip /\ UNCHANGED mark
    \/ PairFree /\ UNCHANGED mark

SpecPair == InitPair /\ [][NextPair]_vars

\* ---------------------------------------------------------------- runes
RECURSIVE And(_, _)
\* a & b
And(a, b) ==
    IF a = 0 \/ b = 0 THEN 0
    ELSE (a % 2) * (b % 2) + 2 * And(a \div 2, b \div 2)

RECURSIVE Or(_, _)
\* a | b
Or(a, b) ==
    IF a = 0 THEN b ELSE IF b = 0 THEN a
    ELSE (IF a % 2 = 1 \/ b % 2 = 1 THEN 1 ELSE 0) + 2 * Or(a \div 2, b \div 2)

\* a << k
Shl(a, k) == a * 2^k

\* the rune length PeekRune picks from the first byte
RuneLen(lead) ==
    IF lead < 192 THEN 1 ELSE IF lead < 224 THEN 2 ELSE IF lead < 240 THEN 3 ELSE 4

\* mutant of Cont: the continuation byte is used unmasked
ContUnmasked(b) == b

\* "rune(z.Peek(i+k) & 0x3F)"
Cont(b) == And(b, 63)

\* the rune PeekRune builds from the bytes its peeks returned
Rune(got) ==
    CASE Len(got) = 1 -> got[1]
      [] Len(got) = 2 -> Or(Shl(And(got[1], 31), 6), Cont(got[2]))
      [] Len(got) = 3 -> Or(Or(Shl(And(got[1], 15), 12), Shl(Cont(got[2]), 6)),
                            Cont(got[3]))
      [] OTHER -> Or(Or(Or(Shl(And(got[1], 7), 18), Shl(Cont(got[2]), 12)),
                        Shl(Cont(got[3]), 6)), Cont(got[4]))

RECURSIVE PeekMore(_, _, _, _, _, _)
\* the peeks at i+1 .. i+n-1, in order; a panic ends the call
PeekMore(q, k, cc, inp, i, n) ==
    IF Len(q.got) = n \/ q.st.panicked THEN {q}
    ELSE UNION {PeekMore([st |-> r, got |-> Append(q.got, r.val)],
                         k, cc, inp, i, n) :
                r \in PeekResults(q.st, k, cc, inp, i + Len(q.got))}

\* Lexer.PeekRune / Shifter.PeekRune
PeekRuneResults(s, k, cc, inp, i) ==
    UNION {PeekMore([st |-> r, got |-> <<r.val>>], k, cc, inp, i,
                    IF r.panicked THEN 1 ELSE RuneLen(r.val)) :
           r \in PeekResults(s, k, cc, inp, i)}

PeekRune ==
    /\ ~panicked
    /\ \E i \in 0..MaxRuneAt : \E q \in PeekRuneResults(Z, kind, c, input, i) :
          /\ Store(q.st)
          /\ ret' = [op |-> "PeekRune", arg |-> i, pull |-> q.st.pull,
                     val |-> IF q.st.panicked THEN [r |-> PANIC, n |-> 0, got |-> q.got]
                             ELSE [r |-> Rune(q.got), n |-> Len(q.got), got |-> q.got]]
    /\ UNCHANGED <<config, caller>>

\* "a\u00E6\u2020\U00100000" of TestShiftBufferRunes, in UTF-8
RuneText == <<97, 195, 166, 226, 128, 160, 244, 128, 128, 128>>

\* the input is any stretch of that text, so that it may start or end
\* in the middle of a rune
InitRune ==
    /\ Build({SubSeq(RuneText, w[1], w[2]) :
                 w \in {v \in (1..Len(RuneText)) \X (0..Len(RuneText)) :
                           v[1] - 1 <= v[2] /\ v[2] - v[1] < MaxRunes}})
    /\ mark = NoMark /\ alt = NoAlt

NextRune ==
    \/ PeekRune /\ Idle
    \/ Move /\ Idle

SpecRune == InitRune /\ [][NextRune]_vars

\* ---------------------------------------------------------------- properties
\* err() as the caller sees it in the current state
ErrNow == Err(err, end, buf.len)

\* the source has behaved: no failure, and no empty pull before the end
SourceOK ==
    hasBytes \/ (err # "ErrSrc" /\ (err = "EOF" => rpos = Len(input)))

\* the shifted or skipped cell k still holds the byte it held when passed over
Intact(k) ==
    shifted[k].idx < Len(heap[shifted[k].arr])
        => heap[shifted[k].arr][shifted[k].idx + 1] = shifted[k].val

\* the shifted or skipped cells the cumulative free total has not covered
Unfreed == { k \in 1..Len(shifted) : k > freed }

\* C1: peek(offset) returns the input byte at stream position frontier+offset
\* when that position is inside the input and the zero byte when it is past
\* the end, for every chunking of a well-behaved source; it never indexes
\* outside the backing (never panics).
C1_PeekReturnsStreamByte ==
    (ret.op = "Peek" /\ SourceOK) =>
        LET p == base + end + ret.arg
        IN ret.val = IF p < Len(input) THEN input[p + 1] ELSE 0

\* C2: no refill writes into storage that holds a shifted byte the cumulative
\* free total has not covered, and no block is inactive while it still holds
\* such a byte.
C2_UnfreedBytesUntouched ==
    kind = "Lexer" =>
        \A k \in Unfreed :
            /\ Intact(k)
            /\ \A i \in 1..Len(pool) :
                   pool[i].arr = shifted[k].arr => pool[i].active

C2_Witness ==
    /\ kind = "Lexer" /\ ~hasBytes
    /\ ret.op = "Peek" /\ ret.pull.n > 0
    /\ \E k \in Unfreed : shifted[k].arr # buf.arr
    /\ \E k \in 1..Len(shifted) : k <= freed /\ shifted[k].arr = buf.arr /\ ~Intact(k)

\* The spec's three positions are two fields in the code: posConsumed and
\* posStart are both z.pos (read re-bases by subtracting z.pos), posEnd is z.end.
PosInv == 0 <= pos /\ pos <= end /\ end <= buf.len

\* C3 (as stated): posConsumed <= posStart <= posEnd <= len(backing) in every
\* state reachable by peek, move, moveTo, shift, skip and free while the caller
\* never moves the frontier before posStart.
C3_PositionsOrdered == PosInv

\* a move or moveTo that puts the frontier past the end of the backing
MovesPastEnd == ret'.op \in {"Move", "MoveTo"} /\ end' > buf'.len

\* C3 (amended): the ordering holds after construction and every operation
\* preserves it, refills included, except a move or moveTo whose target lies
\* past len(backing).
C3_PositionsOrderedWithinBacking ==
    PosInv /\ [][(PosInv /\ ~MovesPastEnd) => PosInv']_vars

C3_Witness ==
    /\ ret.op = "Peek" /\ ret.pull.n > 0 /\ Len(heap) > 1
    /\ base > 0 /\ end > pos /\ PosInv

\* bytes() in the current state, where z.buf[z.pos:z.end] is a legal slice
BytesOK == SliceOK(heap, buf, pos, end)
BytesNow == Bytes(heap, buf, pos, end)

\* a step that is a peek which pulled from the source
Refilled == ret'.op = "Peek" /\ reads' = reads + 1

\* the selection reads the same, and has the same length, after the step
SameSelection == BytesOK' /\ BytesNow' = BytesNow /\ (end - pos)' = end - pos

\* C4 (as stated): a peek that refills leaves the content bytes() yields and
\* pos() unchanged.
C4_RefillKeepsSelection ==
    [][(Refilled /\ BytesOK) => SameSelection]_vars

\* C4 (amended): a peek that refills while the frontier lies within the
\* backing (posEnd <= len(backing)) leaves the content bytes() yields and
\* pos() unchanged.
C4_RefillKeepsSelectionWithinBacking ==
    [][(Refilled /\ BytesOK /\ end <= buf.len) => SameSelection]_vars

C4_Witness ==
    /\ ret.op = "Peek" /\ ret.pull.n > 0 /\ Len(heap) > 1
    /\ base > 0 /\ end > pos /\ end <= buf.len
    /\ BytesNow = SubSeq(input, base + pos + 1, base + end)

\* every byte of pool block i has been covered by the cumulative free total
Covered(i) == \A k \in Unfreed : shifted[k].arr # pool[i].arr

\* a step in which Lexer.read calls swap, and the size it asks for
Swaps ==
    /\ kind = "Lexer" /\ ret'.op = "Peek" /\ err = "nil"
    /\ end + ret'.arg >= buf.len /\ pos <= Cap(heap, buf)

SwapSize == LexerSize(Cap(heap, buf), buf.len - pos, c)

\* C5: once free has covered every byte of a retired block, the next swap
\* whose size fits that block allocates no new block, whether the frees came
\* before or after the block was retired.
C5_CoveredBlockIsReused ==
    [][(Swaps /\ \E i \in 1..Len(pool) :
                    Covered(i) /\ SwapSize <= Len(heap[pool[i].arr]))
          => Len(pool') = Len(pool)]_vars

\* C6: once the error state is set, a peek whose index lies outside the
\* backing returns the zero byte, does not call the source and changes nothing.
C6_PeekPastErrorIsInert ==
    [][(err # "nil" /\ ret'.op = "Peek" /\ end + ret'.arg >= buf.len)
          => /\ ret'.val = 0
             /\ UNCHANGED <<heap, buf, pos, end, err, eof, rpos, reads,
                            pool, head, tail, poolPos>>]_vars

C6_Witness ==
    /\ ~hasBytes /\ err = "ErrSrc" /\ rpos < Len(input)
    /\ ret.op = "Peek" /\ ret.pull = NoPull /\ ret.val = 0
    /\ end + ret.arg >= buf.len

C8_SourceErrorIsSticky ==
    [][err = "ErrSrc" =>
          /\ err' = "ErrSrc"
          /\ reads' = reads
          /\ (ret'.op = "Err" => ret'.val = "ErrSrc")]_vars

C8_Witness ==
    /\ err = "ErrSrc" /\ end < buf.len /\ rpos < Len(input)
    /\ ret.op = "Err" /\ ret.val = "ErrSrc"

\* C9: a pull that delivers zero bytes sets the error state to exhausted
\* unless that pull returned a distinct error, and the peek returns the zero
\* byte; on empty input peek(0) returns zero and err() reports exhausted.
C9_EmptyPullExhausts ==
    /\ (ret.op \in {"Peek", "New"} /\ ret.pull.n = 0) =>
          /\ ret.val = 0
          /\ err = IF ret.pull.e = "ErrSrc" THEN "ErrSrc" ELSE "EOF"
    /\ (Len(input) = 0 /\ ret.op \in {"Peek", "New"}) =>
          /\ ret.val = 0
          /\ (err # "ErrSrc" => ErrNow = "EOF")

C9_Witness ==
    /\ ret.op = "Peek" /\ ret.pull.n = 0 /\ ret.pull.e = "nil"
    /\ rpos < Len(input) /\ err = "EOF" /\ ret.val = 0

\* C10: an instance built over a reader's in-memory bytes starts exhausted,
\* never calls the source, never replaces or rewrites its backing and never
\* touches the pool, so every returned view keeps its content.
C10_InMemoryNeverRefills ==
    hasBytes =>
        /\ err = "EOF" /\ (kind = "Shifter" => eof)
        /\ reads = 0 /\ rpos = 0
        /\ heap = <<input>> /\ buf = [arr |-> 1, len |-> Len(input)]
        /\ pool = <<>> /\ head = 0 /\ tail = 0
        /\ \A k \in 1..Len(shifted) : Intact(k)

C10_Witness ==
    /\ hasBytes /\ Len(shifted) > 1 /\ freed > 0
    /\ ret.op = "Peek" /\ end + ret.arg >= buf.len /\ ret.val = 0

\* C11: m = pos(); move(k); moveTo(m) with no shift or skip in between puts
\* the frontier back where peek(0) returns the byte it returned when the mark
\* was taken, also when peeks refilled the buffer in between.
C11_MoveToRestoresPeek ==
    (mark.back /\ ret.op = "Peek" /\ ret.arg = 0) => ret.val = mark.val

C11_Witness ==
    /\ mark.back /\ ret.op = "Peek" /\ ret.arg = 0 /\ ret.val = mark.val
    /\ ret.val > 0 /\ mark.refilled /\ mark.m > 0 /\ base > 0

\* the values Peek(off) can return in state z
PeekFrom(z, off) == {r.val : r \in PeekResults(z, kind, c, input, off)}

\* a Shift step that returned
Shifts == ret'.op = "Shift" /\ ~panicked'

\* what Skip does to the state, and what Bytes returned before it
BytesThenSkip ==
    /\ ret'.val = BytesNow
    /\ pos' = end
    /\ UNCHANGED <<config, heap, buf, end, err, eof, rpos, reads, base, pooled,
                   freed>>

ShiftKeepsFrontier ==
    /\ (end - pos)' = 0
    /\ end' = end
    /\ \A before \in {Z}, after \in {Z'} : PeekFrom(after, 0) = PeekFrom(before, 0)

StreamByte(p) == IF p < Len(input) THEN input[p + 1] ELSE 0

\* the code point held by a lead byte and its continuation bytes: the low
\* 5, 4 or 3 bits of the lead byte, then the low 6 bits of each other byte
CodePoint(got) ==
    LET n == Len(got)
        lead == got[1] % (IF n = 2 THEN 32 ELSE IF n = 3 THEN 16 ELSE 8)
        tl == [j \in 1..4 |-> IF j < n THEN got[j + 1] % 64 ELSE 0]
    IN CASE n = 1 -> got[1]
         [] n = 2 -> lead * 64 + tl[1]
         [] n = 3 -> lead * 4096 + tl[1] * 64 + tl[2]
         [] OTHER -> lead * 262144 + tl[1] * 4096 + tl[2] * 64 + tl[3]

\* C13: peekRune(offset) returns length 1, 2, 3 or 4 for a lead byte below
\* 0xC0, below 0xE0, below 0xF0 or above, and the code point made of that many
\* peeked bytes under the masks 0x1F, 0x0F, 0x07 and the 6-bit continuation
\* mask; a lead byte below 0xC0 is returned as it is; the call makes at most
\* three more peeks, at the next offsets.
C13_PeekRuneDecodes ==
    (ret.op = "PeekRune" /\ ~panicked) =>
        LET got == ret.val.got
            lead == got[1]
        IN /\ ret.val.n = (IF lead < 192 THEN 1 ELSE IF lead < 224 THEN 2
                           ELSE IF lead < 240 THEN 3 ELSE 4)
           /\ Len(got) = ret.val.n /\ Len(got) - 1 <= 3
           /\ ret.val.r = CodePoint(got)
           /\ lead < 192 => (ret.val.r = lead /\ ret.val.n = 1)
           /\ SourceOK => \A j \in 1..Len(got) :
                  got[j] = StreamByte(base + end + ret.arg + j - 1)

C13_Witness ==
    /\ ret.op = "PeekRune" /\ ~panicked /\ ~hasBytes /\ reads > 2
    /\ input = <<244, 128, 128, 128>>
    /\ ret.val.r = 1048576 /\ ret.val.n = 4

\* C14: skip() is idempotent: a skip() right after a skip() leaves posStart,
\* posEnd, the backing, the error state and the pool as the first one left them.
C14_SkipIsIdempotent ==
    [][(ret.op = "Skip" /\ ret'.op = "Skip") =>
          UNCHANGED <<pos, end, heap, buf, err, eof, pooled>>]_vars

C14_Witness ==
    /\ ret.op = "Skip" /\ pos = end /\ pos > 0 /\ Len(shifted) > 0
    /\ kind = "Lexer" /\ tail # 0

RECURSIVE Walk(_, _, _)
\* the blocks met by following next from block at; a 0 tells a block met twice
Walk(pl, at, acc) ==
    IF at = 0 THEN acc
    ELSE IF \E j \in 1..Len(acc) : acc[j] = at THEN Append(acc, 0)
    ELSE Walk(pl, pl[at].next, Append(acc, at))

\* the chain of retired blocks, from the tail
Chain == Walk(pool, tail, <<>>)

Active == {i \in 1..Len(pool) : pool[i].active}

\* C15: after every swap and free the chain is well formed: head is empty iff
\* tail is empty, following next from the tail reaches the head without
\* meeting a block twice, the head has no successor, and the blocks on the
\* chain are exactly the active blocks.
C15_ChainWellFormed ==
    /\ (head = 0) <=> (tail = 0)
    /\ \A j \in 1..Len(Chain) : Chain[j] # 0
    /\ tail # 0 => (Chain[Len(Chain)] = head /\ pool[head].next = 0)
    /\ {Chain[j] : j \in 1..Len(Chain)} = Active

C15_Witness ==
    /\ ret.op = "Free" /\ Len(Chain) >= 2 /\ Active # 1..Len(pool)
    /\ pool[tail].next = head

\* a refill of the Lexer that did not keep the backing array
Retires == ret'.op = "Peek" /\ kind = "Lexer" /\ buf'.arr # buf.arr

\* the old backing z.buf[:z.pos] is the new head, linked after the old one
PushedAtHead ==
    /\ head' # 0 /\ head' # head
    /\ pool'[head'] = [arr |-> buf.arr, len |-> pos, next |-> 0, active |-> TRUE]
    /\ head # 0 => pool'[head].next = head'
    /\ tail' = IF tail = 0 THEN head' ELSE tail
    /\ Chain' = Append(Chain, head')

\* the blocks a step made inactive are the first j of the chain, for some j
FreedInOrder ==
    \E j \in 0..Len(Chain) :
        /\ Chain' = SubSeq(Chain, j + 1, Len(Chain))
        /\ Active' = Active \ {Chain[i] : i \in 1..j}

\* C16: a swap that does not reuse the backing in place pushes the old backing
\* as a block linked after the head, which becomes the head (and the tail of
\* an empty chain); free marks blocks inactive in the order they were retired,
\* never passing over an earlier one.
C16_RetiredInOrder ==
    [][/\ Retires => PushedAtHead
       /\ ret'.op = "Free" => FreedInOrder]_vars

C16_Witness ==
    /\ ret.op = "Free" /\ Len(Chain) = 1 /\ Cardinality(Active) = 1
    /\ Len(pool) >= 2 /\ poolPos > 0

\* swap kept the backing array / an inactive block fits the size asked for
InPlace == buf'.arr = buf.arr
Fits == FindFree(pool, heap, SwapSize) # 0

\* the old backing is z.buf[:z.pos]: its length is pos
MayReuse ==
    /\ ~Fits /\ tail = 0 /\ poolPos >= pos /\ SwapSize <= Cap(heap, buf)

\* C17: swap reuses the old backing in place only when no inactive block
\* fits, the chain is empty, the consumed offset is at least len(oldBacking)
\* and the size asked for is at most cap(oldBacking); it then lowers the
\* consumed offset by len(oldBacking), which stays non-negative.  Otherwise,
\* when no inactive block fits, a new block of exactly that size is allocated.
C17_ReuseInPlaceOnlyWhenSafe ==
    [][(Swaps /\ ~panicked') =>
          /\ InPlace <=> MayReuse
          /\ InPlace => /\ poolPos' = poolPos - pos /\ poolPos' >= 0
                        /\ UNCHANGED <<pool, head, tail>>
                        /\ Len(heap') = Len(heap)
          /\ (~InPlace /\ ~Fits) =>
                 /\ Len(heap') = Len(heap) + 1 /\ buf'.arr = Len(heap')
                 /\ Cap(heap', buf') = SwapSize]_vars

C17_Witness ==
    /\ kind = "Lexer" /\ ret.op = "Peek" /\ ret.pull.n > 0 /\ ~panicked
    /\ Len(heap) = 1 /\ base > 0 /\ freed > 0 /\ poolPos < freed

\* the size the refill should ask for, for a residual d and a capacity cp
WantedSize(cp, d) == IF 2 * d > cp THEN 2 * cp + d ELSE cp

\* C18: on a refill with residual d = len(backing) - posStart the size asked
\* for is 2*capacity + d when d exceeds half the capacity and the capacity
\* otherwise; the d residual bytes are copied to the front, one pull is made
\* over [d, capacity) of the new backing, and the new length is d plus the
\* bytes pulled.
C18_RefillSizing ==
    [][Refilled =>
          LET d == buf.len - pos
              want == WantedSize(Cap(heap, buf), d)
          IN /\ Len(heap') > Len(heap) => Len(heap'[Len(heap')]) = want
             /\ Cap(heap', buf') >= want
             /\ \A i \in 1..d : heap'[buf'.arr][i] = heap[buf.arr][pos + i]
             /\ ret'.pull.n <= Cap(heap', buf') - d
             /\ buf'.len = d + ret'.pull.n]_vars

RECURSIVE SumLen(_, _)
\* total length of the blocks ch of pool pl
SumLen(pl, ch) ==
    IF ch = <<>> THEN 0 ELSE pl[Head(ch)].len + SumLen(pl, Tail(ch))

\* bytes shifted or skipped that the pool has not yet seen freed at all: those
\* of the chain and of the live backing, less the pool's consumed offset
Owed == SumLen(pool, Chain) + pos - poolPos

\* C19: free(n) beyond the bytes shifted or skipped so far fails, does
\* nothing or saturates: no excess is kept as credit, so the pool's consumed
\* offset never runs ahead of the bytes passed over, and bytes shifted after
\* the over-free are not taken as freed by a later swap or free.
C19_OverFreeGivesNoCredit ==
    (kind = "Lexer" /\ ~panicked) => Owed >= 0

\* what a caller can see of an instance z: the last value returned, the
\* bytes of the token, the error reported, and whether it has panicked
Seen(z) ==
    [val |-> z.val, panicked |-> z.panicked,
     err |-> Err(z.err, z.end, z.buf.len),
     bytes |-> IF SliceOK(z.heap, z.buf, z.pos, z.end)
               THEN Bytes(z.heap, z.buf, z.pos, z.end) ELSE <<PANIC>>]

\* the Lexer as a record, with the value its last call returned
Now == [Z EXCEPT !.val = IF ret.op \in {"Peek", "New", "Shift"} THEN ret.val ELSE 0]

SecondNow == alt.st

Consumed == [k \in 1..Len(shifted) |-> shifted[k].val]

\* they are the input stream up to the token start
ConsumedIsPrefix ==
    /\ Len(shifted) = base + pos
    /\ base + pos <= Len(input)
    /\ Consumed = SubSeq(input, 1, base + pos)

\* C21: the regions consumed by the successive shift and skip calls,
\* concatenated in call order, are exactly the prefix of the input stream that
\* ends at posStart, whatever the peeks, moves and refills in between: no byte
\* is lost, duplicated or reordered.
C21_ConsumedIsStreamPrefix == ~panicked => ConsumedIsPrefix

\* a shift or skip taken with the frontier past the end of the backing
PassesPastEnd == ret'.op \in {"Shift", "Skip"} /\ end > buf.len

\* C21 amended: the same, as long as no shift or skip is made with the
\* frontier past len(backing).
C21_ConsumedIsStreamPrefixWithinBacking ==
    ConsumedIsPrefix /\ [][(ConsumedIsPrefix /\ ~PassesPastEnd) => ConsumedIsPrefix']_vars

C21_Witness ==
    /\ ret.op = "Shift" /\ ~panicked /\ Len(ret.val) > 0
    /\ ~hasBytes /\ reads >= 3 /\ Len(heap) > 1
    /\ Len(shifted) = MaxInput /\ ConsumedIsPrefix

\* the arrays held by the blocks of the pool, active or not
Held == {pool[i].arr : i \in 1..Len(pool)}

\* C22: the live backing and the blocks of the pool occupy pairwise distinct
\* storage: the backing swap returned is held by no block, active or
\* inactive, and no storage is held by two blocks, after any sequence of swap
\* and free.  (A read that panics after its swap has not installed the
\* backing swap returned.)
C22_StorageIsDistinct ==
    kind = "Lexer" =>
        /\ ~panicked => buf.arr \notin Held
        /\ \A i, j \in 1..Len(pool) : pool[i].arr = pool[j].arr => i = j

C22_Witness ==
    /\ kind = "Lexer" /\ ~panicked /\ ret.op = "Peek" /\ ret.pull # NoPull
    /\ Len(pool) >= 2 /\ buf.arr < Len(heap) /\ tail # 0

\* a step that is a Free call
Frees == ret'.op = "Free"

\* free leaves the positions, the backing, the error state and the source alone
FreeKeepsLexer ==
    UNCHANGED <<pos, end, heap, buf, err, eof, rpos, reads, base, panicked>>

\* of the blocks free changes the active flags only
FreeKeepsBlocks ==
    /\ Len(pool') = Len(pool)
    /\ \A i \in 1..Len(pool) :
          [pool'[i] EXCEPT !.active = TRUE] = [pool[i] EXCEPT !.active = TRUE]

\* pos(), bytes() and err() return after the step what they returned before
FreeKeepsViews ==
    /\ Pos' = Pos
    /\ BytesOK' = BytesOK /\ (BytesOK => BytesNow' = BytesNow)
    /\ ErrNow' = ErrNow

\* peek(off) can return after the step what it could return before
FreeKeepsPeek ==
    \A before \in {Z}, after \in {Z'} :
        \A off \in 0..MaxPeek : PeekFrom(after, off) = PeekFrom(before, off)

\* C23: free(n) changes only the bookkeeping of the pool (consumed offset,
\* head, tail, active flags): posStart, posEnd, the content and length of the
\* backing and the error state stay as they are, so peek, pos, bytes and err
\* return right after a free what they returned right before it.
C23_FreeChangesOnlyPool ==
    [][Frees => (FreeKeepsLexer /\ FreeKeepsBlocks /\ FreeKeepsViews
                 /\ FreeKeepsPeek)]_vars

C23_Witness ==
    /\ ret.op = "Free" /\ freed > 0 /\ tail = 0 /\ Len(pool) >= 2 /\ poolPos > 0
    /\ pos < end /\ end < buf.len /\ err = "nil"

\* the last call (a peek, or the constructor's Peek(0)) pulled from the source
Pulled == ret.pull # NoPull

\* the region that pull offered the source: the capacity of the backing less
\* the residual d, which is the length less the bytes pulled
Room == Cap(heap, buf) - (buf.len - ret.pull.n)

\* the source gave no byte although it had some left and was offered room
SourceStalls == ret.pull.n = 0 /\ rpos < Len(input) /\ Room >= 1

\* C24: every refill offers the source a non-empty region, whatever block
\* the pool hands out, so the buffer becomes exhausted only when the source
\* said so or gave zero bytes into a non-empty region; with a source that
\* neither fails nor stalls it becomes exhausted only after all the input has
\* been made available.
C24_RefillOffersRoom ==
    Pulled =>
        /\ Room >= 1
        /\ err = "EOF" => (ret.pull.e = "EOF" \/ (ret.pull.n = 0 /\ Room >= 1))
        /\ (err = "EOF" /\ ~SourceStalls) => rpos = Len(input)

====
